---- MODULE Spec2Model ----
(***************************************************************************)
(* Sketchly: the version-history store (src/store/version-history-store.ts) *)
(* and the code editor that drives it (components/code-editor.tsx).         *)
(*                                                                         *)
(* Version ids come from uuidv4(); they are modelled as fresh naturals     *)
(* handed out by the counter nextId.  Timestamps are not modelled: no      *)
(* operation modelled here reads them.                                     *)
(***************************************************************************)
EXTENDS Integers, Sequences, FiniteSets, TLC

\* ------------------------------------------------------------------ bounds
MaxIds == 3          \* number of uuidv4() results available in one run
MaxUpdates == 1      \* number of updateVersion calls in one run

Projects == {"p1", "p2"}
Codes == {"a", "b"}
Names == {"Foo"}

\* ------------------------------------------------------------- constants
NoId == 0            \* the empty string '' used as currentVersionId
NoParent == 0 - 1    \* parentVersionId left undefined
ForeignId == MaxIds + 1   \* an id string that uuidv4() never returned
NoName == ""         \* componentName argument omitted (falsy)

VARIABLES
    histories,          \* Record<string, VersionHistory>; absent = <<>>
    currentProjectId,   \* string | null
    nextId,             \* next uuidv4() result
    nUpdates,           \* updateVersion calls made so far
    \* sketch store (src/store/sketch-store.ts)
    currentSketch,      \* SketchData | null: <<>> or <<[id, analysis, textless]>>
    generatedCode,      \* GeneratedCode | null: <<>> or <<[jsx, componentName, version]>>
    isGenerating,
    \* asynchronous requests in flight
    analyzing,          \* sketch ids whose analyzeSketch call has not resolved
    uploaded,           \* sketch ids already handed out by generateId()
    inflight,           \* generateCodeFromAnalysis calls that have not resolved
    \* HomePage and CodeEditor component state
    activeTab,          \* "upload" | "editor" | "preview"
    editorValue,
    isModified,
    dirty,              \* effect dependencies changed since the last effect pass
    \* VersionHistory panel
    showVersionHistory,
    panelVersions,      \* the panel's memoised versions list
    lastEvent,          \* the last user event or request completion
    generationToast,    \* the last toast of handleGenerateCode / handleAIEnhance
    isAnalyzing,        \* sketch store flag written by setAnalyzing
    \* HomePage and the project store
    sketches,           \* sketch store: the ids of its sketches list, in order
    currentProject,     \* Project | null: <<>> or <<[sketches, currentSketchId]>>
    homePending,        \* dependencies of HomePage's effects changed since they ran
    \* ComponentPreview (src/components/component-preview.tsx)
    mounted,            \* a ComponentPreview instance is on the page
    previewCode,        \* its code prop
    previewName,        \* its componentName prop
    babelLoaded,
    isLoading,
    error,              \* string | null: <<>> or <<message>>
    RenderedComponent,  \* the memoised component: <<>> (null) or <<function>>
    hasError,           \* state of the mounted ErrorBoundary
    windowBabel,        \* window.Babel is defined
    scriptPending,      \* the Babel <script> has neither loaded nor failed
    stages,             \* steps of RenderedComponent's computation run by the last step
    \* VersionHistory panel, compare mode
    comparison,         \* the last compareVersions call and what it returned
    unsaved,            \* the last hasUnsavedChanges call and what it returned
    issued              \* per project: the versionNumbers handed out to its history, in order

storeVars == <<histories, currentProjectId, nextId, nUpdates>>
uiVars == <<currentSketch, generatedCode, isGenerating, analyzing, uploaded,
            inflight, activeTab, editorValue, isModified, dirty,
            showVersionHistory, panelVersions, lastEvent, generationToast,
            isAnalyzing>>
previewVars == <<mounted, previewCode, previewName, babelLoaded, isLoading,
                 error, RenderedComponent, hasError, windowBabel,
                 scriptPending, stages>>
homeVars == <<sketches, currentProject, homePending>>
readVars == <<comparison, unsaved, issued>>
vars == <<histories, currentProjectId, nextId, nUpdates,
          currentSketch, generatedCode, isGenerating, analyzing, uploaded,
          inflight, activeTab, editorValue, isModified, dirty,
          showVersionHistory, panelVersions, lastEvent, generationToast,
          isAnalyzing, sketches, currentProject, homePending,
          mounted, previewCode, previewName, babelLoaded, isLoading,
          error, RenderedComponent, hasError, windowBabel,
          scriptPending, stages, comparison, unsaved, issued>>

\* ---------------------------------------------------------------- helpers
Absent == <<>>
Has(h, p) == h[p] # Absent

LastOf(s) == s[Len(s)]

\* Array.prototype.find: the first element satisfying the test, as a
\* sequence of length 0 (undefined) or 1.
FindById(vs, id) ==
    LET idx == {i \in 1..Len(vs) : vs[i].id = id}
    IN  IF idx = {} THEN <<>>
        ELSE <<vs[CHOOSE i \in idx : \A j \in idx : i <= j]>>

\* Array.prototype.filter(v => v.id !== id)
RECURSIVE FilterOut(_, _)
FilterOut(vs, id) ==
    IF vs = <<>> THEN <<>>
    ELSE IF Head(vs).id = id THEN FilterOut(Tail(vs), id)
         ELSE <<Head(vs)>> \o FilterOut(Tail(vs), id)

\* ------------------------------------------------------------ store reads
getVersions(h, p) == IF Has(h, p) THEN h[p].versions ELSE <<>>

getCurrentVersion(h, p) ==
    IF ~Has(h, p) THEN <<>>
    ELSE FindById(h[p].versions, h[p].currentVersionId)

\* ---------------------------------------------------------- store actions
Init ==
    /\ histories = [p \in Projects |-> Absent]
    /\ currentProjectId = "null"
    /\ nextId = 1
    /\ nUpdates = 0
    /\ currentSketch = <<>>
    /\ generatedCode = <<>>
    /\ isGenerating = FALSE
    /\ analyzing = {}
    /\ uploaded = {}
    /\ inflight = <<>>
    /\ activeTab = "upload"
    /\ editorValue = ""
    /\ isModified = FALSE
    /\ dirty = {}
    /\ showVersionHistory = FALSE
    /\ panelVersions = <<>>
    /\ lastEvent = "none"
    /\ generationToast = "none"
    /\ isAnalyzing = FALSE
    /\ sketches = <<>>
    /\ currentProject = <<>>
    /\ homePending = {}
    /\ mounted = FALSE
    /\ previewCode = <<>>
    /\ previewName = ""
    /\ babelLoaded = FALSE
    /\ isLoading = TRUE
    /\ error = <<>>
    /\ RenderedComponent = <<>>
    /\ hasError = FALSE
    /\ windowBabel = FALSE
    /\ scriptPending = FALSE
    /\ stages = <<>>
    /\ comparison = <<>>
    /\ unsaved = <<>>
    /\ issued = [p \in Projects |-> <<>>]

\* Mutant: an existing history is kept instead of being replaced.
InitializeHistoryTo_KeepExisting(h, p, id, initialCode, componentName) ==
    IF Has(h, p) THEN h
    ELSE [h EXCEPT ![p] = [projectId |-> p,
                           versions |-> <<[id |-> id, code |-> initialCode,
                                           description |-> "Initial version",
                                           componentName |-> componentName,
                                           versionNumber |-> 1,
                                           parentVersionId |-> NoParent]>>,
                           currentVersionId |-> id]]

InitializeHistoryTo(h, p, id, initialCode, componentName) ==
    LET initialVersion == [id |-> id, code |-> initialCode,
                           description |-> "Initial version",
                           componentName |-> componentName,
                           versionNumber |-> 1,
                           parentVersionId |-> NoParent]
    IN  [h EXCEPT ![p] = [projectId |-> p,
                          versions |-> <<initialVersion>>,
                          currentVersionId |-> initialVersion.id]]

initializeHistory(p, initialCode, componentName) ==
    /\ nextId <= MaxIds
    /\ nextId' = nextId + 1
    /\ currentProjectId' = p
    /\ UNCHANGED nUpdates
    /\ histories' = InitializeHistoryTo(histories, p, nextId, initialCode,
                                        componentName)

\* addVersion: throws when the project has no history; a history emptied by
\* clearHistory makes latestVersion undefined and the property read throws a
\* TypeError.  Either way nothing is written.
AddVersionThrows(h, p) == ~Has(h, p) \/ h[p].versions = <<>>

\* Mutant: the new versionNumber is the number of versions plus one.
NewVersion_CountPlusOne(history, id, code, description, componentName) ==
    LET latestVersion == LastOf(history.versions)
    IN  [id |-> id, code |-> code, description |-> description,
         componentName |-> IF componentName # NoName THEN componentName
                           ELSE latestVersion.componentName,
         versionNumber |-> Len(history.versions) + 1,
         parentVersionId |-> latestVersion.id]

NewVersion(history, id, code, description, componentName) ==
    LET latestVersion == LastOf(history.versions)
    IN  [id |-> id, code |-> code, description |-> description,
         componentName |-> IF componentName # NoName THEN componentName
                           ELSE latestVersion.componentName,
         versionNumber |-> latestVersion.versionNumber + 1,
         parentVersionId |-> latestVersion.id]

AddVersionTo(h, p, id, code, description, componentName) ==
    LET newVersion == NewVersion(h[p], id, code, description, componentName)
    IN  [h EXCEPT ![p] = [@ EXCEPT !.versions = Append(@, newVersion),
                                   !.currentVersionId = newVersion.id]]

\* Mutant: a missing history is created instead of raising the error.
addVersion_CreateMissing(p, code, description, componentName) ==
    /\ UNCHANGED <<currentProjectId, nUpdates>>
    /\ nextId <= MaxIds
    /\ nextId' = nextId + 1
    /\ histories' = IF AddVersionThrows(histories, p)
                     THEN InitializeHistoryTo(histories, p, nextId, code, "Foo")
                     ELSE AddVersionTo(histories, p, nextId, code,
                                       description, componentName)

addVersion(p, code, description, componentName) ==
    /\ UNCHANGED <<currentProjectId, nUpdates>>
    /\ IF AddVersionThrows(histories, p)
       THEN /\ UNCHANGED <<histories, nextId>>
       ELSE /\ nextId <= MaxIds
            /\ histories' = AddVersionTo(histories, p, nextId, code,
                                         description, componentName)
            /\ nextId' = nextId + 1

\* Mutant: rolling back also drops the versions after the target.
RollbackTo_Truncate(h, p, versionId) ==
    IF ~Has(h, p) THEN h
    ELSE IF FindById(h[p].versions, versionId) = <<>> THEN h
    ELSE LET vs == h[p].versions
             k == CHOOSE i \in 1..Len(vs) :
                      /\ vs[i].id = versionId
                      /\ \A j \in 1..(i - 1) : vs[j].id # versionId
         IN  [h EXCEPT ![p] = [@ EXCEPT !.versions = SubSeq(vs, 1, k),
                                        !.currentVersionId = versionId]]

\* Mutant: the pointer is moved without looking the version up.
RollbackTo_Unchecked(h, p, versionId) ==
    IF ~Has(h, p) THEN h
    ELSE [h EXCEPT ![p].currentVersionId = versionId]

RollbackTo(h, p, versionId) ==
    IF ~Has(h, p) THEN h
    ELSE IF FindById(h[p].versions, versionId) = <<>> THEN h
    ELSE [h EXCEPT ![p].currentVersionId = versionId]

RollbackResult(h, p, versionId) ==
    IF ~Has(h, p) THEN <<>> ELSE FindById(h[p].versions, versionId)

rollbackToVersion(p, versionId) ==
    /\ UNCHANGED <<currentProjectId, nextId, nUpdates>>
    /\ histories' = RollbackTo(histories, p, versionId)

\* deleteVersion: with duplicate ids (updateVersion can create them) the
\* filter may leave no version; reading latestVersion.id then throws.
DeleteVersionThrows(h, p, versionId) ==
    /\ Has(h, p)
    /\ Len(h[p].versions) > 1
    /\ h[p].currentVersionId = versionId
    /\ FilterOut(h[p].versions, versionId) = <<>>

\* Mutant: the only-version guard is missing.
DeleteFrom_NoLastGuard(h, p, versionId) ==
    IF ~Has(h, p) THEN h
    ELSE LET updatedVersions == FilterOut(h[p].versions, versionId)
             newCurrentVersionId ==
                 IF h[p].currentVersionId = versionId /\ updatedVersions # <<>>
                 THEN LastOf(updatedVersions).id
                 ELSE h[p].currentVersionId
         IN  [h EXCEPT ![p] = [@ EXCEPT !.versions = updatedVersions,
                                        !.currentVersionId = newCurrentVersionId]]

\* Mutant: after deleting the current version the first remaining version
\* becomes current.
DeleteFrom_FirstRemaining(h, p, versionId) ==
    IF ~Has(h, p) THEN h
    ELSE IF Len(h[p].versions) <= 1 THEN h
    ELSE LET updatedVersions == FilterOut(h[p].versions, versionId)
             newCurrentVersionId ==
                 IF h[p].currentVersionId = versionId
                 THEN updatedVersions[1].id
                 ELSE h[p].currentVersionId
         IN  [h EXCEPT ![p] = [@ EXCEPT !.versions = updatedVersions,
                                        !.currentVersionId = newCurrentVersionId]]

DeleteFrom(h, p, versionId) ==
    IF ~Has(h, p) THEN h
    ELSE IF Len(h[p].versions) <= 1 THEN h
    ELSE LET updatedVersions == FilterOut(h[p].versions, versionId)
             newCurrentVersionId ==
                 IF h[p].currentVersionId = versionId
                 THEN LastOf(updatedVersions).id
                 ELSE h[p].currentVersionId
         IN  [h EXCEPT ![p] = [@ EXCEPT !.versions = updatedVersions,
                                        !.currentVersionId = newCurrentVersionId]]

deleteVersion(p, versionId) ==
    /\ UNCHANGED <<currentProjectId, nextId, nUpdates>>
    /\ IF DeleteVersionThrows(histories, p, versionId)
       THEN /\ UNCHANGED histories
       ELSE /\ histories' = DeleteFrom(histories, p, versionId)

\* updateVersion: { ...version, ...updates } for the versions with that id.
\* updates is a Partial<CodeVersion>; u is a one-field patch [f, v].
Patch(version, u) ==
    CASE u.f = "description" -> [version EXCEPT !.description = u.v]
      [] u.f = "code" -> [version EXCEPT !.code = u.v]
      [] u.f = "componentName" -> [version EXCEPT !.componentName = u.v]
      [] u.f = "versionNumber" -> [version EXCEPT !.versionNumber = u.v]
      [] u.f = "id" -> [version EXCEPT !.id = u.v]
      [] OTHER -> version

UpdateIn(h, p, versionId, u) ==
    IF ~Has(h, p) THEN h
    ELSE [h EXCEPT ![p].versions =
             [i \in 1..Len(@) |-> IF @[i].id = versionId THEN Patch(@[i], u)
                                  ELSE @[i]]]

updateVersion(p, versionId, u) ==
    /\ nUpdates < MaxUpdates
    /\ nUpdates' = nUpdates + 1
    /\ histories' = UpdateIn(histories, p, versionId, u)
    /\ UNCHANGED <<currentProjectId, nextId>>

ClearIn(h, p) ==
    [h EXCEPT ![p] = [projectId |-> p, versions |-> <<>>,
                      currentVersionId |-> NoId]]

clearHistory(p) ==
    /\ histories' = ClearIn(histories, p)
    /\ UNCHANGED <<currentProjectId, nextId, nUpdates>>

setCurrentProject(p) ==
    /\ currentProjectId' = p
    /\ UNCHANGED <<histories, nextId, nUpdates>>

\* ------------------------------------------------------------ input sets
\* The store keeps the text it is given without inspecting it: with all seven
\* operations in play, direct calls pass one text to initializeHistory and
\* another to addVersion, and updateVersion can set either.
Descriptions == {"Updated code"}
InitialCodes == {"a"}
NewCodes == {"b"}
\* Ids worth passing for project p: the ids of its versions and one id that
\* names none of them.
IdsIn(p) == {getVersions(histories, p)[i].id :
                 i \in 1..Len(getVersions(histories, p))}
ArgIdsFor(p) == IdsIn(p) \cup {ForeignId}
Updates ==
    {[f |-> "code", v |-> c] : c \in Codes}
    \cup {[f |-> "versionNumber", v |-> MaxIds + 1]}
    \cup {[f |-> "id", v |-> ForeignId]}

\* The store called directly, with the application state left alone.
DoInitializeHistory(texts) ==
    /\ \E p \in Projects, c \in texts, n \in Names : initializeHistory(p, c, n)
    /\ UNCHANGED <<uiVars, previewVars, homeVars, readVars>>
DoAddVersion(texts) ==
    /\ \E p \in Projects, c \in texts, d \in Descriptions, n \in Names \cup {NoName} :
           addVersion(p, c, d, n)
    /\ UNCHANGED <<uiVars, previewVars, homeVars, readVars>>
DoRollbackToVersion ==
    /\ \E p \in Projects : \E v \in ArgIdsFor(p) : rollbackToVersion(p, v)
    /\ UNCHANGED <<uiVars, previewVars, homeVars, readVars>>
DoDeleteVersion ==
    /\ \E p \in Projects : \E v \in ArgIdsFor(p) : deleteVersion(p, v)
    /\ UNCHANGED <<uiVars, previewVars, homeVars, readVars>>
DoUpdateVersion ==
    /\ \E p \in Projects : \E v \in ArgIdsFor(p), u \in Updates :
           updateVersion(p, v, u)
    /\ UNCHANGED <<uiVars, previewVars, homeVars, readVars>>
DoClearHistory ==
    /\ \E p \in Projects : clearHistory(p)
    /\ UNCHANGED <<uiVars, previewVars, homeVars, readVars>>
DoSetCurrentProject ==
    /\ \E p \in Projects : setCurrentProject(p)
    /\ UNCHANGED <<uiVars, previewVars, homeVars, readVars>>

\* Every operation of the store, in any order.
Next ==
    \/ DoInitializeHistory(InitialCodes)
    \/ DoAddVersion(NewCodes)
    \/ DoRollbackToVersion
    \/ DoDeleteVersion
    \/ DoUpdateVersion
    \/ DoClearHistory
    \/ DoSetCurrentProject

Spec == Init /\ [][Next]_vars

\* The four operations of the history state machine only.
NextCore ==
    \/ DoInitializeHistory(Codes)
    \/ DoAddVersion(Codes)
    \/ DoRollbackToVersion
    \/ DoDeleteVersion

SpecCore == Init /\ [][NextCore]_vars

\* ============================================== application (React) layer
MaxRequests == 2     \* generation requests in flight at one time

Undefined == "undefined"
AllDeps == {"jsx", "generatedCode", "currentSketch", "isGenerating", "editorValue"}

Jsx(gc) == IF gc = <<>> THEN Undefined ELSE gc[1].jsx
\* generatedCode?.jsx is truthy
HasJsx(gc) == gc # <<>> /\ gc[1].jsx # ""

\* Mutant: without a current version there is nothing unsaved.
hasUnsavedChanges_NoVersionClean(h, p, currentCode) ==
    LET currentVersion == getCurrentVersion(h, p)
    IN  IF currentVersion # <<>> THEN currentVersion[1].code # currentCode
        ELSE FALSE

hasUnsavedChanges(h, p, currentCode) ==
    LET currentVersion == getCurrentVersion(h, p)
    IN  IF currentVersion # <<>> THEN currentVersion[1].code # currentCode
        ELSE TRUE

\* Dependencies a state change marks for the next effect pass of a mounted
\* CodeEditor; an unmounted editor has no effects to run.
Mark(deps) == IF activeTab = "editor" THEN dirty \cup deps ELSE {}
If(cond, deps) == IF cond THEN deps ELSE {}
\* React runs the pending effects before it handles the next event.
Settled == activeTab = "editor" => dirty = {}

\* -------------------------------------------------- upload (SketchUpload)
AddSketch(s) ==
    /\ UNCHANGED <<previewVars, readVars, generationToast, currentProject>>
    /\ isAnalyzing' = TRUE
    /\ sketches' = Append(sketches, s)
    /\ homePending' = homePending \cup {"currentSketch"}
    /\ activeTab = "upload"
    /\ s \notin uploaded
    /\ uploaded' = uploaded \cup {s}
    /\ analyzing' = analyzing \cup {s}
    /\ currentSketch' = <<[id |-> s, analysis |-> FALSE, textless |-> FALSE]>>
    /\ lastEvent' = "upload"
    /\ UNCHANGED <<storeVars, generatedCode, isGenerating, inflight, activeTab,
                   editorValue, isModified, dirty, showVersionHistory,
                   panelVersions>>

\* Mounting CodeEditor: fresh local state, every effect runs once.
MountEditor ==
    /\ activeTab' = "editor"
    /\ editorValue' = ""
    /\ isModified' = FALSE
    /\ showVersionHistory' = FALSE
    /\ panelVersions' = <<>>
    /\ dirty' = AllDeps

UnmountEditor(t) ==
    /\ activeTab' = t
    /\ editorValue' = ""
    /\ isModified' = FALSE
    /\ showVersionHistory' = FALSE
    /\ panelVersions' = <<>>
    /\ dirty' = {}

\* analyzeSketch resolved: updateSketchAnalysis, then onUploadComplete
\* switches to the editor tab.  textless: the analysis came back without an
\* extractedText array (analyzeSketch validates detectedElements only).
AnalysisArrives(s, textless) ==
    /\ UNCHANGED <<previewVars, readVars, generationToast, sketches, currentProject>>
    /\ homePending' = homePending
                          \cup If(currentSketch # <<>> /\ currentSketch[1].id = s,
                                  {"currentSketch"})
    /\ isAnalyzing' = FALSE
    /\ s \in analyzing
    /\ Settled
    /\ analyzing' = analyzing \ {s}
    /\ LET hit == currentSketch # <<>> /\ currentSketch[1].id = s
       IN  /\ currentSketch' = IF hit THEN <<[currentSketch[1] EXCEPT !.analysis = TRUE,
                                                                     !.textless = textless]>>
                               ELSE currentSketch
           /\ IF activeTab = "editor"
              THEN /\ dirty' = dirty \cup If(hit, {"currentSketch"})
                   /\ UNCHANGED <<activeTab, editorValue, isModified,
                                  showVersionHistory, panelVersions>>
              ELSE MountEditor
    /\ lastEvent' = "analysis"
    /\ UNCHANGED <<storeVars, generatedCode, isGenerating, inflight, uploaded>>

AnalysisResolved(s) == AnalysisArrives(s, FALSE)

AnalysisFailed(s) ==
    /\ UNCHANGED <<previewVars, homeVars, readVars, generationToast>>
    /\ isAnalyzing' = FALSE
    /\ s \in analyzing
    /\ Settled
    /\ analyzing' = analyzing \ {s}
    /\ lastEvent' = "analysisFailed"
    /\ UNCHANGED <<storeVars, currentSketch, generatedCode, isGenerating,
                   inflight, uploaded, activeTab, editorValue, isModified,
                   dirty, showVersionHistory, panelVersions>>

SwitchTab(t) ==
    /\ UNCHANGED <<previewVars, homeVars, readVars, generationToast, isAnalyzing>>
    /\ t # activeTab
    /\ Settled
    /\ IF t = "editor" THEN MountEditor ELSE UnmountEditor(t)
    /\ lastEvent' = "tab"
    /\ UNCHANGED <<storeVars, currentSketch, generatedCode, isGenerating,
                   analyzing, uploaded, inflight>>

\* ------------------------------------------------- CodeEditor effects
\* One pass over the four effects, in declaration order, for the
\* dependencies that changed; every effect reads the values of the render
\* it belongs to, store calls take effect at once.
EffectPass ==
    /\ UNCHANGED <<previewVars, homeVars, readVars, generationToast, isAnalyzing>>
    /\ activeTab = "editor"
    /\ dirty # {}
    /\ LET gc == generatedCode
           cs == currentSketch
           ev == editorValue
           \* effect 1: initialise the editor with the generated code
           run1 == "jsx" \in dirty
           load == run1 /\ HasJsx(gc) /\ ev # gc[1].jsx
           empty == run1 /\ ~HasJsx(gc) /\ gc # <<>>
           ev1 == IF load THEN gc[1].jsx ELSE IF empty THEN "" ELSE ev
           \* effect 2: generate initial code
           run2 == dirty \cap {"currentSketch", "generatedCode", "isGenerating"} # {}
           gen == run2 /\ cs # <<>> /\ cs[1].analysis /\ gc = <<>> /\ ~isGenerating
           \* effect 3: initialise the version history
           run3 == dirty \cap {"generatedCode", "currentSketch"} # {}
           init == run3 /\ HasJsx(gc) /\ cs # <<>>
           h1 == IF init
                 THEN InitializeHistoryTo(histories, cs[1].id, nextId,
                                          gc[1].jsx, gc[1].componentName)
                 ELSE histories
           \* effect 4: check for unsaved changes
           run4 == dirty \cap {"editorValue", "generatedCode", "currentSketch"} # {}
           check == run4 /\ gc # <<>> /\ cs # <<>>
       IN  /\ init => nextId <= MaxIds
           /\ gen => Len(inflight) < MaxRequests
           /\ histories' = h1
           /\ nextId' = IF init THEN nextId + 1 ELSE nextId
           /\ currentProjectId' = IF init THEN cs[1].id ELSE currentProjectId
           /\ editorValue' = ev1
           /\ isModified' = IF check THEN hasUnsavedChanges(h1, cs[1].id, ev)
                            ELSE IF load THEN FALSE ELSE isModified
           /\ isGenerating' = (gen \/ isGenerating)
           /\ inflight' = IF gen THEN Append(inflight, [kind |-> "generate", version |-> 0,
                                                      textless |-> currentSketch[1].textless])
                          ELSE inflight
           /\ dirty' = If(ev1 # ev, {"editorValue"}) \cup If(gen, {"isGenerating"})
    /\ UNCHANGED <<nUpdates, currentSketch, generatedCode, analyzing, uploaded,
                   activeTab, showVersionHistory, panelVersions, lastEvent>>

\* -------------------------------------------------- CodeEditor handlers
Toolbar ==
    /\ activeTab = "editor"
    /\ dirty = {}
    /\ currentSketch # <<>>
    /\ ~showVersionHistory

\* handleGenerateCode from the Generate/Regenerate button.
GenerateClick ==
    /\ UNCHANGED <<previewVars, homeVars, readVars, generationToast, isAnalyzing>>
    /\ Toolbar
    /\ ~isGenerating /\ currentSketch[1].analysis
    /\ Len(inflight) < MaxRequests
    /\ isGenerating' = TRUE
    /\ inflight' = Append(inflight, [kind |-> "generate", version |-> 0,
                                     textless |-> currentSketch[1].textless])
    /\ dirty' = {"isGenerating"}
    /\ lastEvent' = "generate"
    /\ UNCHANGED <<storeVars, currentSketch, generatedCode, analyzing, uploaded,
                   activeTab, editorValue, isModified, showVersionHistory,
                   panelVersions>>

\* handleAIEnhance: the version it will write is read when it is clicked.
AIEnhanceClick ==
    /\ UNCHANGED <<previewVars, homeVars, readVars, generationToast, isAnalyzing>>
    /\ Toolbar
    /\ generatedCode # <<>>
    /\ ~isGenerating /\ currentSketch[1].analysis
    /\ Len(inflight) < MaxRequests
    /\ isGenerating' = TRUE
    /\ inflight' = Append(inflight, [kind |-> "enhance",
                                     version |-> generatedCode[1].version + 1,
                                     textless |-> currentSketch[1].textless])
    /\ dirty' = {"isGenerating"}
    /\ lastEvent' = "enhance"
    /\ UNCHANGED <<storeVars, currentSketch, generatedCode, analyzing, uploaded,
                   activeTab, editorValue, isModified, showVersionHistory,
                   panelVersions>>

\* toast.success / toast.error texts of the two generation handlers.
ToastGenerated == "Code generated successfully!"
ToastEnhanced == "Code enhanced with AI!"
ToastGenerateFailed == "Failed to generate code"
ToastEnhanceFailed == "Failed to enhance code"

RemoveAt(seq, i) == SubSeq(seq, 1, i - 1) \o SubSeq(seq, i + 1, Len(seq))

\* Variant: only the request started last may write the slot.
GenerateResolve_LatestStartedOnly(i, jsx, name) ==
    /\ UNCHANGED <<previewVars, homeVars, readVars, isAnalyzing>>
    /\ i \in 1..Len(inflight)
    /\ Settled
    /\ generatedCode' = IF i = Len(inflight)
                        THEN <<[jsx |-> jsx, componentName |-> name,
                                version |-> IF inflight[i].kind = "enhance"
                                            THEN inflight[i].version ELSE 1]>>
                        ELSE generatedCode
    /\ isGenerating' = FALSE
    /\ inflight' = RemoveAt(inflight, i)
    /\ dirty' = Mark({"generatedCode"} \cup If(jsx # Jsx(generatedCode), {"jsx"})
                     \cup If(isGenerating, {"isGenerating"}))
    /\ lastEvent' = "resolve"
    /\ generationToast' = IF inflight[i].kind = "enhance" THEN ToastEnhanced
                        ELSE ToastGenerated
    /\ UNCHANGED <<storeVars, currentSketch, analyzing, uploaded, activeTab,
                   editorValue, isModified, showVersionHistory, panelVersions>>

\* A generation request resolves (with the model's code or the fallback
\* component): setGeneratedCode, then finally setGenerating(false).
GenerateResolve(i, jsx, name) ==
    /\ UNCHANGED <<previewVars, homeVars, readVars, isAnalyzing>>
    /\ i \in 1..Len(inflight)
    /\ Settled
    /\ generatedCode' = <<[jsx |-> jsx, componentName |-> name,
                           version |-> IF inflight[i].kind = "enhance"
                                       THEN inflight[i].version ELSE 1]>>
    /\ isGenerating' = FALSE
    /\ inflight' = RemoveAt(inflight, i)
    /\ dirty' = Mark({"generatedCode"} \cup If(jsx # Jsx(generatedCode), {"jsx"})
                     \cup If(isGenerating, {"isGenerating"}))
    /\ lastEvent' = "resolve"
    /\ generationToast' = IF inflight[i].kind = "enhance" THEN ToastEnhanced
                        ELSE ToastGenerated
    /\ UNCHANGED <<storeVars, currentSketch, analyzing, uploaded, activeTab,
                   editorValue, isModified, showVersionHistory, panelVersions>>

handleEditorChange(value) ==
    /\ UNCHANGED <<previewVars, homeVars, readVars, generationToast, isAnalyzing>>
    /\ Toolbar
    /\ ~isGenerating
    /\ value # editorValue
    /\ editorValue' = value
    /\ isModified' = (value # Jsx(generatedCode))
    /\ dirty' = {"editorValue"}
    /\ lastEvent' = "edit"
    /\ UNCHANGED <<storeVars, currentSketch, generatedCode, isGenerating,
                   analyzing, uploaded, inflight, activeTab,
                   showVersionHistory, panelVersions>>

\* Save Changes: addVersion, updateGeneratedCode, setIsModified(false).
\* Nothing happens without generated code; a throwing addVersion ends the
\* handler before anything is written.
handleSaveChanges ==
    /\ UNCHANGED <<previewVars, homeVars, readVars, generationToast, isAnalyzing>>
    /\ Toolbar
    /\ isModified
    /\ lastEvent' = "save"
    /\ LET gc == generatedCode
           p == currentSketch[1].id
       IN  IF gc = <<>> \/ AddVersionThrows(histories, p)
           THEN UNCHANGED <<histories, nextId, generatedCode, isModified, dirty>>
           ELSE /\ nextId <= MaxIds
                /\ histories' = AddVersionTo(histories, p, nextId, editorValue,
                                             "Manual changes saved",
                                             gc[1].componentName)
                /\ nextId' = nextId + 1
                /\ generatedCode' = <<[gc[1] EXCEPT !.jsx = editorValue,
                                                    !.version = @ + 1]>>
                /\ isModified' = FALSE
                /\ dirty' = {"generatedCode"} \cup If(editorValue # gc[1].jsx, {"jsx"})
    /\ UNCHANGED <<currentProjectId, nUpdates, currentSketch, isGenerating,
                   analyzing, uploaded, inflight, activeTab, editorValue,
                   showVersionHistory, panelVersions>>

\* ------------------------------------------------ VersionHistory panel
OpenPanel ==
    /\ UNCHANGED <<previewVars, homeVars, readVars, generationToast, isAnalyzing>>
    /\ Toolbar
    /\ showVersionHistory' = TRUE
    /\ panelVersions' = getVersions(histories, currentSketch[1].id)
    /\ lastEvent' = "open"
    /\ UNCHANGED <<storeVars, currentSketch, generatedCode, isGenerating,
                   analyzing, uploaded, inflight, activeTab, editorValue,
                   isModified, dirty>>

Panel ==
    /\ activeTab = "editor"
    /\ dirty = {}
    /\ showVersionHistory

ClosePanel ==
    /\ UNCHANGED <<previewVars, homeVars, readVars, generationToast, isAnalyzing>>
    /\ Panel
    /\ showVersionHistory' = FALSE
    /\ panelVersions' = <<>>
    /\ lastEvent' = "close"
    /\ UNCHANGED <<storeVars, currentSketch, generatedCode, isGenerating,
                   analyzing, uploaded, inflight, activeTab, editorValue,
                   isModified, dirty>>

\* onCodeChange of the panel: setEditorValue(code), setIsModified(false).
OnCodeChange(code) ==
    /\ editorValue' = code
    /\ isModified' = FALSE
    /\ dirty' = If(code # editorValue, {"editorValue"})

handleRollback(versionId) ==
    /\ UNCHANGED <<previewVars, homeVars, readVars, generationToast, isAnalyzing>>
    /\ Panel
    /\ FindById(panelVersions, versionId) # <<>>
    /\ LET p == currentSketch[1].id
           rolledBackVersion == RollbackResult(histories, p, versionId)
       IN  /\ histories' = RollbackTo(histories, p, versionId)
           /\ IF rolledBackVersion # <<>>
              THEN OnCodeChange(rolledBackVersion[1].code)
              ELSE UNCHANGED <<editorValue, isModified, dirty>>
    /\ lastEvent' = "rollback"
    /\ UNCHANGED <<currentProjectId, nextId, nUpdates, currentSketch,
                   generatedCode, isGenerating, analyzing, uploaded, inflight,
                   activeTab, showVersionHistory, panelVersions>>

handleViewVersion(i) ==
    /\ UNCHANGED <<previewVars, homeVars, readVars, generationToast, isAnalyzing>>
    /\ Panel
    /\ i \in 1..Len(panelVersions)
    /\ OnCodeChange(panelVersions[i].code)
    /\ lastEvent' = "view"
    /\ UNCHANGED <<storeVars, currentSketch, generatedCode, isGenerating,
                   analyzing, uploaded, inflight, activeTab,
                   showVersionHistory, panelVersions>>

\* Delete button of a listed version.
PanelDelete(versionId) ==
    /\ UNCHANGED <<previewVars, homeVars, readVars, generationToast, isAnalyzing>>
    /\ Panel
    /\ FindById(panelVersions, versionId) # <<>>
    /\ LET p == currentSketch[1].id
       IN  histories' = IF DeleteVersionThrows(histories, p, versionId)
                        THEN histories
                        ELSE DeleteFrom(histories, p, versionId)
    /\ lastEvent' = "delete"
    /\ UNCHANGED <<currentProjectId, nextId, nUpdates, currentSketch,
                   generatedCode, isGenerating, analyzing, uploaded, inflight,
                   activeTab, editorValue, isModified, dirty,
                   showVersionHistory, panelVersions>>

Tabs == {"upload", "editor", "preview"}
\* What the user can leave in the editor: a text or nothing at all.
EditorTexts == Codes \cup {""}

NextEditor ==
    \/ \E s \in Projects : AddSketch(s)
    \/ \E s \in Projects : AnalysisResolved(s)
    \/ \E s \in Projects : AnalysisFailed(s)
    \/ \E t \in Tabs : SwitchTab(t)
    \/ EffectPass
    \/ GenerateClick
    \/ AIEnhanceClick
    \/ \E i \in 1..MaxRequests, c \in Codes, n \in Names : GenerateResolve(i, c, n)
    \/ \E c \in EditorTexts : handleEditorChange(c)
    \/ handleSaveChanges
    \/ OpenPanel
    \/ ClosePanel
    \/ \E v \in 1..MaxIds : handleRollback(v)
    \/ \E i \in 1..MaxIds : handleViewVersion(i)
    \/ \E v \in 1..MaxIds : PanelDelete(v)

SpecEditor == Init /\ [][NextEditor]_vars

\* ------------------------------------------- generation requests that fail
\* createFallbackComponent(componentName, analysis): a non-empty component
\* text declared under componentName.
Placeholder == "placeholder"

\* fetch rejected or the response was not OK: generateCodeFromAnalysis
\* catches the error and returns the fallback component as its result; the
\* handler cannot tell it from a generated one.
GenerateFallback(i, name) ==
    /\ i \in 1..Len(inflight)
    /\ ~inflight[i].textless
    /\ GenerateResolve(i, Placeholder, name)

\* fetch failed and the fallback cannot be built: the analysis has no
\* extractedText array, so createFallbackComponent throws inside the catch
\* block of generateCodeFromAnalysis.  The promise rejects, the handler's catch shows the error toast and finally does
\* setGenerating(false); generatedCode is not written.
GenerateRejects(i) ==
    /\ UNCHANGED <<previewVars, homeVars, readVars, isAnalyzing>>
    /\ i \in 1..Len(inflight)
    /\ inflight[i].textless
    /\ Settled
    /\ isGenerating' = FALSE
    /\ inflight' = RemoveAt(inflight, i)
    /\ dirty' = Mark(If(isGenerating, {"isGenerating"}))
    /\ lastEvent' = "rejected"
    /\ generationToast' = IF inflight[i].kind = "enhance" THEN ToastEnhanceFailed
                          ELSE ToastGenerateFailed
    /\ UNCHANGED <<storeVars, currentSketch, generatedCode, analyzing, uploaded,
                   activeTab, editorValue, isModified, showVersionHistory,
                   panelVersions>>

\* The handlers themselves: neither looks at isGenerating (only the buttons
\* and the auto-generate effect do), so a call made while a request is in
\* flight (an effect run twice on mount, a programmatic call) starts a second
\* request.  The early return on a missing analysis is the guard.
handleGenerateCode ==
    /\ UNCHANGED <<previewVars, homeVars, readVars, generationToast, isAnalyzing>>
    /\ activeTab = "editor" /\ dirty = {}
    /\ currentSketch # <<>> /\ currentSketch[1].analysis
    /\ Len(inflight) < MaxRequests
    /\ isGenerating' = TRUE
    /\ inflight' = Append(inflight, [kind |-> "generate", version |-> 0,
                                     textless |-> currentSketch[1].textless])
    /\ dirty' = If(~isGenerating, {"isGenerating"})
    /\ lastEvent' = "generate"
    /\ UNCHANGED <<storeVars, currentSketch, generatedCode, analyzing, uploaded,
                   activeTab, editorValue, isModified, showVersionHistory,
                   panelVersions>>

\* (generatedCode?.version || 0) + 1 is read from the render the handler
\* was created in.
handleAIEnhance ==
    /\ UNCHANGED <<previewVars, homeVars, readVars, generationToast, isAnalyzing>>
    /\ activeTab = "editor" /\ dirty = {}
    /\ currentSketch # <<>> /\ currentSketch[1].analysis
    /\ Len(inflight) < MaxRequests
    /\ isGenerating' = TRUE
    /\ inflight' = Append(inflight,
                          [kind |-> "enhance",
                           version |-> IF generatedCode = <<>> THEN 1
                                       ELSE generatedCode[1].version + 1,
                           textless |-> currentSketch[1].textless])
    /\ dirty' = If(~isGenerating, {"isGenerating"})
    /\ lastEvent' = "enhance"
    /\ UNCHANGED <<storeVars, currentSketch, generatedCode, analyzing, uploaded,
                   activeTab, editorValue, isModified, showVersionHistory,
                   panelVersions>>

NextGenerate ==
    \/ \E s \in Projects : AddSketch(s)
    \/ \E s \in Projects, textless \in BOOLEAN : AnalysisArrives(s, textless)
    \/ EffectPass
    \/ GenerateClick
    \/ AIEnhanceClick
    \/ \E i \in 1..MaxRequests, c \in Codes, n \in Names : GenerateResolve(i, c, n)
    \/ \E i \in 1..MaxRequests, n \in Names : GenerateFallback(i, n)
    \/ \E i \in 1..MaxRequests : GenerateRejects(i)

SpecGenerate == Init /\ [][NextGenerate]_vars

NextOverlap ==
    \/ \E s \in Projects : AddSketch(s)
    \/ \E s \in Projects, textless \in BOOLEAN : AnalysisArrives(s, textless)
    \/ EffectPass
    \/ handleGenerateCode
    \/ handleAIEnhance
    \/ \E i \in 1..MaxRequests, c \in Codes, n \in Names : GenerateResolve(i, c, n)
    \/ \E i \in 1..MaxRequests, n \in Names : GenerateFallback(i, n)
    \/ \E i \in 1..MaxRequests : GenerateRejects(i)

SpecOverlap == Init /\ [][NextOverlap]_vars

\* PreviewPanel: the code prop handed to ComponentPreview, as a sequence of
\* length 0 (no ComponentPreview is rendered) or 1.
PreviewCode(gc) == IF HasJsx(gc) THEN <<gc[1].jsx>> ELSE <<>>

\* ========================================== ComponentPreview (the renderer)
\* A source text is a sequence of top-level lines.  A line is
\*   blank                       only white space
\*   import                      import ... from '...'
\*   function NAME() { BODY }    BODY: "markup" (returns JSX), "nothing"
\*                               (empty body) or "throws" (throws when called)
\*   const NAME = VALUE          VALUE: "arrowMarkup" (() => JSX) or "number"
\*   markup                      a bare JSX expression
\*   throw new Error(MSG)        value is MSG
\*   broken                      function NAME( {   -- does not parse
\* and may carry an export / export default prefix.
Line(kind, name, value) ==
    [kind |-> kind, exported |-> FALSE, name |-> name, value |-> value]
Blank == Line("blank", "", "")
Import == Line("import", "", "")
Fn(name, body) == Line("function", name, body)
Const(name, value) == Line("const", name, value)
Markup == Line("markup", "", "")
Throw(msg) == Line("throw", "", msg)
Broken(name) == Line("broken", name, "")
Exported(line) == [line EXCEPT !.exported = TRUE]

ComponentNames == {"X", "Y"}

Sources ==
    { <<>>,
      <<Blank>>,
      <<Exported(Fn("X", "nothing"))>>,
      <<Import, Blank, Exported(Fn("Y", "markup"))>>,
      <<Fn("X", "markup")>>,
      <<Fn("Y", "throws")>>,
      <<Exported(Const("Y", "arrowMarkup"))>>,
      <<Const("Y", "number")>>,
      <<Const("X", "number"), Fn("Y", "markup")>>,
      <<Markup>>,
      <<Import, Markup>>,
      <<Broken("Y")>>,
      <<Throw(""), Fn("Y", "markup")>>,
      <<Throw("boom"), Fn("Y", "markup")>> }

\* !code || !code.trim()
IsBlank(text) == \A i \in 1..Len(text) : text[i].kind = "blank"

\* String.prototype.trim on lines: leading and trailing blank lines go.
RECURSIVE TrimLeft(_)
TrimLeft(text) ==
    IF text = <<>> THEN <<>>
    ELSE IF Head(text).kind = "blank" THEN TrimLeft(Tail(text))
    ELSE text
RECURSIVE TrimRight(_)
TrimRight(text) ==
    IF text = <<>> THEN <<>>
    ELSE IF text[Len(text)].kind = "blank"
         THEN TrimRight(SubSeq(text, 1, Len(text) - 1))
    ELSE text
Trim(text) == TrimRight(TrimLeft(text))

\* cleanCode: import lines are replaced by nothing (the line break stays),
\* export prefixes are removed, the result is trimmed.
CleanCode(text) ==
    Trim([i \in 1..Len(text) |->
              IF text[i].kind = "import" THEN Blank
              ELSE [text[i] EXCEPT !.exported = FALSE]])

\* cleanCode.includes('function') || includes('const') || includes('=>')
HasKeyword(line) ==
    \/ line.kind \in {"function", "const", "broken"}
    \/ line.value = "arrowMarkup"
ValidStructure(cleanCode) ==
    \E i \in 1..Len(cleanCode) : HasKeyword(cleanCode[i])

\* cleanCode.match(/(?:function|const|var|let)\s+(\w+)\s*[=\(]/): the name
\* of the first declaration in the text, if there is one.
Declares(line) == line.kind \in {"function", "const", "broken"}
ActualComponentName(cleanCode, componentName) ==
    IF \A i \in 1..Len(cleanCode) : ~Declares(cleanCode[i]) THEN componentName
    ELSE cleanCode[CHOOSE i \in 1..Len(cleanCode) :
                       /\ Declares(cleanCode[i])
                       /\ \A j \in 1..(i - 1) : ~Declares(cleanCode[j])].name

\* window.Babel.transform throws on text it cannot parse.
TransformThrows(cleanCode) ==
    \E i \in 1..Len(cleanCode) : cleanCode[i].kind = "broken"

\* componentFactory(...): the top-level statements run in order; a throw
\* ends the call with that message.
FactoryThrows(cleanCode) ==
    \E i \in 1..Len(cleanCode) : cleanCode[i].kind = "throw"
FactoryMessage(cleanCode) ==
    cleanCode[CHOOSE i \in 1..Len(cleanCode) :
                  /\ cleanCode[i].kind = "throw"
                  /\ \A j \in 1..(i - 1) : cleanCode[j].kind # "throw"].value
\* typeof NAME !== 'undefined' ? NAME : null, as <<>> or <<line>>; a later
\* declaration of the same name overrides an earlier one.
Binding(cleanCode, name) ==
    LET idx == {i \in 1..Len(cleanCode) :
                    cleanCode[i].kind \in {"function", "const"}
                        /\ cleanCode[i].name = name}
    IN  IF idx = {} THEN <<>>
        ELSE <<cleanCode[CHOOSE i \in idx : \A j \in idx : j <= i]>>
\* typeof Component === 'function'
IsFunction(binding) ==
    binding # <<>> /\ (binding[1].kind = "function"
                          \/ binding[1].value = "arrowMarkup")
\* Rendering <Component /> throws.
RenderThrows(component) == component.kind = "function" /\ component.value = "throws"

MsgEmpty == "No code provided to preview"
MsgStructure == "Invalid component structure: component must be a function or const declaration"
MsgTranspile == "JSX transpilation failed"
MsgNotFound == "Component not found or is not a function"
MsgBabelLoad == "Failed to load Babel transpiler. Please check your internet connection."

\* if (error): null and the empty string are falsy.
Truthy(e) == e # <<>> /\ e[1] # ""

\* The memo from setError(null) on: structure check, Babel.transform,
\* componentFactory and the typeof test.
AttemptLoaded(text, componentName) ==
    LET cleanCode == CleanCode(text)
    IN  IF ~ValidStructure(cleanCode)
        THEN [component |-> <<>>, error |-> <<MsgStructure>>,
              stages |-> <<"structure">>]
        ELSE IF TransformThrows(cleanCode)
        THEN [component |-> <<>>, error |-> <<MsgTranspile>>,
              stages |-> <<"structure", "transform">>]
        ELSE IF FactoryThrows(cleanCode)
        THEN [component |-> <<>>, error |-> <<FactoryMessage(cleanCode)>>,
              stages |-> <<"structure", "transform", "factory">>]
        ELSE
        LET Component == Binding(cleanCode,
                                 ActualComponentName(cleanCode, componentName))
        IN  IF ~IsFunction(Component)
            THEN [component |-> <<>>, error |-> <<MsgNotFound>>,
                  stages |-> <<"structure", "transform", "factory">>]
            ELSE [component |-> Component, error |-> <<>>,
                  stages |-> <<"structure", "transform", "factory">>]

\* One computation of the RenderedComponent memo.  stages lists which of the
\* structure check, Babel.transform and componentFactory were reached; error
\* is the error state it leaves behind, given the one it found.
\* Mutant: the babelLoaded test comes before the empty-text test.
Attempt_LoadedFirst(text, componentName, loaded, prevError) ==
    IF ~loaded
    THEN [component |-> <<>>, error |-> prevError, stages |-> <<>>]
    ELSE IF IsBlank(text)
    THEN [component |-> <<>>, error |-> <<MsgEmpty>>, stages |-> <<>>]
    ELSE AttemptLoaded(text, componentName)

Attempt(text, componentName, loaded, prevError) ==
    IF IsBlank(text)
    THEN [component |-> <<>>, error |-> <<MsgEmpty>>, stages |-> <<>>]
    ELSE IF ~loaded
    THEN [component |-> <<>>, error |-> prevError, stages |-> <<>>]
    ELSE AttemptLoaded(text, componentName)

\* The branch of ComponentPreview's return that renders <ErrorBoundary>.
ShowsBoundary(loading, loaded, e, component) ==
    /\ ~(loading /\ ~loaded)
    /\ ~Truthy(e)
    /\ component # <<>>

\* hasError of the ErrorBoundary after a commit: a boundary that stays
\* mounted keeps its state, a new one starts clean; rendering a throwing
\* component sets it.
BoundaryAfter(wasShown, loading, loaded, e, component) ==
    /\ ShowsBoundary(loading, loaded, e, component)
    /\ \/ wasShown /\ hasError
       \/ RenderThrows(component[1])

\* What the preview region shows.
Display ==
    IF ~mounted THEN "unmounted"
    ELSE IF isLoading /\ ~babelLoaded THEN "Loading preview engine..."
    ELSE IF Truthy(error) THEN "Preview Error"
    ELSE IF RenderedComponent = <<>> THEN "No component to preview"
    ELSE IF hasError THEN "Render Error"
    ELSE "component"

editorFrame == <<storeVars, uiVars, homeVars, readVars>>

\* PreviewPanel renders <ComponentPreview code componentName />: first
\* render with babelLoaded = false, then the two effects; when window.Babel
\* is already there the first effect sets babelLoaded and the memo is
\* computed again.
PreviewMount(text, name) ==
    /\ ~mounted
    /\ mounted' = TRUE
    /\ previewCode' = text
    /\ previewName' = name
    /\ LET first == Attempt(text, name, FALSE, <<>>)
           second == Attempt(text, name, TRUE, first.error)
       IN  IF windowBabel
           THEN /\ babelLoaded' = TRUE
                /\ error' = second.error
                /\ RenderedComponent' = second.component
                /\ isLoading' = (second.component = <<>>)
                /\ stages' = first.stages \o second.stages
                /\ hasError' = BoundaryAfter(FALSE, second.component = <<>>, TRUE,
                                             second.error, second.component)
                /\ UNCHANGED scriptPending
           ELSE /\ babelLoaded' = FALSE
                /\ error' = first.error
                /\ RenderedComponent' = first.component
                /\ isLoading' = TRUE
                /\ stages' = first.stages
                /\ hasError' = FALSE
                /\ scriptPending' = TRUE
    /\ UNCHANGED <<windowBabel, editorFrame>>

\* script.onload: setBabelLoaded(true), setIsLoading(false); the memo's
\* dependency babelLoaded changed, so it is computed again.
BabelOnLoad ==
    /\ scriptPending
    /\ scriptPending' = FALSE
    /\ windowBabel' = TRUE
    /\ IF mounted
       THEN LET a == Attempt(previewCode, previewName, TRUE, error)
            IN  /\ babelLoaded' = TRUE
                /\ isLoading' = FALSE
                /\ error' = a.error
                /\ RenderedComponent' = a.component
                /\ stages' = a.stages
                /\ hasError' = BoundaryAfter(FALSE, FALSE, TRUE, a.error, a.component)
       ELSE UNCHANGED <<babelLoaded, isLoading, error, RenderedComponent,
                        stages, hasError>>
    /\ UNCHANGED <<mounted, previewCode, previewName, editorFrame>>

\* script.onerror
BabelOnError ==
    /\ scriptPending
    /\ scriptPending' = FALSE
    /\ IF mounted
       THEN /\ error' = <<MsgBabelLoad>>
            /\ isLoading' = FALSE
            /\ stages' = <<>>
       ELSE UNCHANGED <<error, isLoading, stages>>
    /\ UNCHANGED <<mounted, previewCode, previewName, babelLoaded,
                   RenderedComponent, hasError, windowBabel, editorFrame>>

\* generatedCode changed while the preview is shown: the same
\* ComponentPreview instance gets new props.
SetProps(text, name) ==
    /\ mounted
    /\ <<text, name>> # <<previewCode, previewName>>
    /\ previewCode' = text
    /\ previewName' = name
    /\ LET a == Attempt(text, name, babelLoaded, error)
           loading == IF a.component # <<>> THEN FALSE ELSE isLoading
       IN  /\ error' = a.error
           /\ RenderedComponent' = a.component
           /\ isLoading' = loading
           /\ stages' = a.stages
           /\ hasError' = BoundaryAfter(
                              ShowsBoundary(isLoading, babelLoaded, error,
                                            RenderedComponent),
                              loading, babelLoaded, a.error, a.component)
    /\ UNCHANGED <<mounted, babelLoaded, windowBabel, scriptPending, editorFrame>>

\* PreviewPanel renders again with the same generatedCode (viewport or
\* fullscreen toggled): the memo's dependencies are unchanged.
HostRerender ==
    /\ mounted
    /\ stages' = <<>>
    /\ UNCHANGED <<mounted, previewCode, previewName, babelLoaded, isLoading,
                   error, RenderedComponent, hasError, windowBabel,
                   scriptPending, editorFrame>>

\* Show Code / Hide Code: PreviewPanel renders again with the same
\* generatedCode, but the wrapper <div> of {previewComponent} is the only
\* child of its parent in the split view and the second of two children
\* otherwise, so React does not match it with the old one: the
\* ComponentPreview instance is discarded and a new one is mounted with the
\* same props, its state starting over.
ToggleShowCode ==
    /\ mounted
    /\ LET first == Attempt(previewCode, previewName, FALSE, <<>>)
           second == Attempt(previewCode, previewName, TRUE, first.error)
       IN  IF windowBabel
           THEN /\ babelLoaded' = TRUE
                /\ error' = second.error
                /\ RenderedComponent' = second.component
                /\ isLoading' = (second.component = <<>>)
                /\ stages' = first.stages \o second.stages
                /\ hasError' = BoundaryAfter(FALSE, second.component = <<>>, TRUE,
                                             second.error, second.component)
                /\ UNCHANGED scriptPending
           ELSE /\ babelLoaded' = FALSE
                /\ error' = first.error
                /\ RenderedComponent' = first.component
                /\ isLoading' = TRUE
                /\ stages' = first.stages
                /\ hasError' = FALSE
                /\ scriptPending' = TRUE
    /\ UNCHANGED <<mounted, previewCode, previewName, windowBabel, editorFrame>>

\* Leaving the preview tab removes the instance.
PreviewUnmount ==
    /\ mounted
    /\ mounted' = FALSE
    /\ previewCode' = <<>>
    /\ previewName' = ""
    /\ babelLoaded' = FALSE
    /\ isLoading' = TRUE
    /\ error' = <<>>
    /\ RenderedComponent' = <<>>
    /\ hasError' = FALSE
    /\ stages' = <<>>
    /\ UNCHANGED <<windowBabel, scriptPending, editorFrame>>

NextPreview ==
    \/ \E text \in Sources, name \in ComponentNames : PreviewMount(text, name)
    \/ BabelOnLoad
    \/ BabelOnError
    \/ \E text \in Sources, name \in ComponentNames : SetProps(text, name)
    \/ HostRerender
    \/ ToggleShowCode
    \/ PreviewUnmount

SpecPreview == Init /\ [][NextPreview]_vars

\* ======================================================== compareVersions
\* For the diff a text is a sequence of characters; NL is the line break.
NL == "\n"
Chars == {"x", NL}
MaxLen == 3          \* longest text compared
Texts == UNION {[1..n -> Chars] : n \in 0..MaxLen}
CompareProjects == {"p1"}

\* code.split('\n'): the pieces between line breaks; '' gives [''].
RECURSIVE Split(_)
Split(text) ==
    IF text = <<>> THEN << <<>> >>
    ELSE IF Head(text) = NL THEN << <<>> >> \o Split(Tail(text))
    ELSE LET rest == Split(Tail(text))
         IN  << <<Head(text)>> \o Head(rest) >> \o Tail(rest)

\* lines[i] || '' with i counted from 1: a missing line reads as ''.
LineAt(lines, i) == IF i <= Len(lines) THEN lines[i] ELSE <<>>

\* Mutant: the loop stops at the end of the shorter text.
Max_Shorter(a, b) == IF a >= b THEN b ELSE a

Max(a, b) == IF a >= b THEN a ELSE b

\* The template strings pushed on the three lists.
Arrow == "->"
AdditionOf(line2) == <<"+", " ">> \o line2
DeletionOf(line1) == <<"-", " ">> \o line1
ModificationOf(line1, line2) == <<"~", " ">> \o line1 \o <<" ", Arrow, " ">> \o line2

\* Mutant: a line missing on the left counts as added even when the right
\* one is empty too.
Classify_LeftEmptyOnly(line1, line2) ==
    IF line1 = <<>> THEN "addition"
    ELSE IF line1 # <<>> /\ line2 = <<>> THEN "deletion"
    ELSE IF line1 # line2 THEN "modification"
    ELSE "same"

\* The if / else if chain of the loop body.
Classify(line1, line2) ==
    IF line1 = <<>> /\ line2 # <<>> THEN "addition"
    ELSE IF line1 # <<>> /\ line2 = <<>> THEN "deletion"
    ELSE IF line1 # line2 THEN "modification"
    ELSE "same"

\* The loop from index i on, with the lists built so far.
RECURSIVE DiffFrom(_, _, _, _)
DiffFrom(lines1, lines2, i, acc) ==
    IF i > Max(Len(lines1), Len(lines2)) THEN acc
    ELSE LET line1 == LineAt(lines1, i)
             line2 == LineAt(lines2, i)
             what == Classify(line1, line2)
         IN  DiffFrom(lines1, lines2, i + 1,
                 [additions |-> IF what = "addition"
                                THEN Append(acc.additions, AdditionOf(line2))
                                ELSE acc.additions,
                  deletions |-> IF what = "deletion"
                                THEN Append(acc.deletions, DeletionOf(line1))
                                ELSE acc.deletions,
                  modifications |-> IF what = "modification"
                                    THEN Append(acc.modifications,
                                                ModificationOf(line1, line2))
                                    ELSE acc.modifications])

NoDifference == [additions |-> <<>>, deletions |-> <<>>, modifications |-> <<>>]
Diff(code1, code2) == DiffFrom(Split(code1), Split(code2), 1, NoDifference)

\* compareVersions: null (<<>>) when the history or one of the versions is
\* missing, else <<the three lists>>.
compareVersions(h, p, versionId1, versionId2) ==
    IF ~Has(h, p) THEN <<>>
    ELSE LET version1 == FindById(h[p].versions, versionId1)
             version2 == FindById(h[p].versions, versionId2)
         IN  IF version1 = <<>> \/ version2 = <<>> THEN <<>>
             ELSE <<Diff(version1[1].code, version2[1].code)>>

\* The panel's comparison: compareVersions(projectId, selectedVersions[0],
\* selectedVersions[1]).
DoCompareVersions(p, versionId1, versionId2) ==
    /\ comparison' = <<[projectId |-> p, versionId1 |-> versionId1,
                        versionId2 |-> versionId2,
                        result |-> compareVersions(histories, p, versionId1,
                                                   versionId2)]>>
    /\ UNCHANGED <<storeVars, uiVars, previewVars, homeVars, unsaved, issued>>

\* compareVersions reads two versions: a history is written until it holds
\* one for each of the two id arguments, then compared.
CompareArgs == {"versionId1", "versionId2"}
WriteInitial ==
    /\ \E p \in CompareProjects, c \in Texts, n \in Names :
           /\ ~Has(histories, p)
           /\ initializeHistory(p, c, n)
    /\ UNCHANGED <<uiVars, previewVars, homeVars, readVars>>
WriteVersion ==
    /\ \E p \in CompareProjects, c \in Texts, d \in Descriptions, n \in Names :
           /\ Len(getVersions(histories, p)) < Cardinality(CompareArgs)
           /\ ~AddVersionThrows(histories, p)
           /\ addVersion(p, c, d, n)
    /\ UNCHANGED <<uiVars, previewVars, homeVars, readVars>>

CompareSelected ==
    \E p \in CompareProjects : \E v1, v2 \in ArgIdsFor(p) :
        DoCompareVersions(p, v1, v2)

NextCompare ==
    \/ WriteInitial
    \/ WriteVersion
    \/ CompareSelected

SpecCompare == Init /\ [][NextCompare]_vars

\* ====================================================== hasUnsavedChanges
\* hasUnsavedChanges(projectId, currentCode) called on the store: it reads
\* through get() and returns a boolean.
DoHasUnsavedChanges(p, currentCode) ==
    /\ unsaved' = <<[projectId |-> p, currentCode |-> currentCode,
                     result |-> hasUnsavedChanges(histories, p, currentCode)]>>
    /\ UNCHANGED <<storeVars, uiVars, previewVars, homeVars, comparison, issued>>

CheckUnsaved == \E p \in Projects, c \in Codes : DoHasUnsavedChanges(p, c)

\* Histories with and without a current version: written, extended, patched
\* and cleared, and asked about.
NextUnsaved ==
    \/ DoInitializeHistory(InitialCodes)
    \/ DoAddVersion(NewCodes)
    \/ DoUpdateVersion
    \/ DoClearHistory
    \/ CheckUnsaved

SpecUnsaved == Init /\ [][NextUnsaved]_vars

\* ========================================================= versionNumber
\* The history of one project through initializeHistory, addVersion and
\* deleteVersion, with every versionNumber written into a version noted in
\* issued as it is handed out.
IssueInitial ==
    /\ \E p \in Projects, c \in Codes, n \in Names :
           /\ ~Has(histories, p)
           /\ initializeHistory(p, c, n)
           /\ issued' = [issued EXCEPT ![p] =
                             <<LastOf(histories'[p].versions).versionNumber>>]
    /\ UNCHANGED <<uiVars, previewVars, homeVars, comparison, unsaved>>

IssueNext ==
    /\ \E p \in Projects, c \in Codes, d \in Descriptions, n \in Names :
           /\ ~AddVersionThrows(histories, p)
           /\ addVersion(p, c, d, n)
           /\ issued' = [issued EXCEPT ![p] =
                             Append(@, LastOf(histories'[p].versions).versionNumber)]
    /\ UNCHANGED <<uiVars, previewVars, homeVars, comparison, unsaved>>

Withdraw ==
    /\ \E p \in Projects : \E v \in IdsIn(p) : deleteVersion(p, v)
    /\ UNCHANGED <<uiVars, previewVars, homeVars, readVars>>

NextNumbers == IssueInitial \/ IssueNext \/ Withdraw

SpecNumbers == Init /\ [][NextNumbers]_vars

\* ============================================ HomePage and the project store
MaxListed == 5       \* longest sketches list of the sketch store
NoSketch == ""       \* currentSketchId of a project that has none

\* createProject: a new project without sketches becomes the current one.
createProject ==
    /\ currentProject' = <<[sketches |-> <<>>, currentSketchId |-> NoSketch]>>
    /\ homePending' = homePending \cup {"currentProject"}
    /\ UNCHANGED <<storeVars, uiVars, previewVars, readVars, sketches>>

InProject(project, id) ==
    \E k \in 1..Len(project.sketches) : project.sketches[k].id = id

IdsOf(list) == [k \in 1..Len(list) |-> list[k].id]

\* One pass over HomePage's two effects, in declaration order, for the
\* dependencies that changed.  Both read currentSketch and currentProject
\* of the render they belong to; the store actions read the store.
\*   sync: addSketchToProject(currentSketch) when the project lacks it;
\*   load: addSketch for every sketch of the project, updateSketchAnalysis
\*         for those with an analysis, then the project store's
\*         setCurrentSketch(currentSketchId), which always replaces
\*         currentProject by a new object.
HomeEffects ==
    /\ homePending # {}
    /\ LET cs == currentSketch
           project == currentProject
           sync == /\ cs # <<>>
                   /\ project # <<>>
                   /\ ~InProject(project[1], cs[1].id)
           synced == IF sync
                     THEN <<[sketches |-> Append(project[1].sketches, cs[1]),
                             currentSketchId |-> cs[1].id]>>
                     ELSE project
           load == /\ "currentProject" \in homePending
                   /\ project # <<>>
                   /\ project[1].sketches # <<>>
           listed == IF load THEN sketches \o IdsOf(project[1].sketches)
                     ELSE sketches
           cs1 == IF load THEN <<LastOf(project[1].sketches)>> ELSE cs
           setCurrent == load /\ project[1].currentSketchId # NoSketch
           loaded == IF setCurrent
                     THEN <<[synced[1] EXCEPT
                               !.currentSketchId = project[1].currentSketchId]>>
                     ELSE synced
           touched == load /\ (cs1 # cs \/ cs1[1].analysis)
       IN  /\ Len(listed) <= MaxListed
           /\ sketches' = listed
           /\ currentSketch' = cs1
           /\ currentProject' = loaded
           /\ homePending' = If(sync \/ setCurrent, {"currentProject"})
                                 \cup If(touched, {"currentSketch"})
           /\ dirty' = Mark(If(touched, {"currentSketch"}))
    /\ UNCHANGED <<storeVars, previewVars, readVars, generatedCode,
                   isGenerating, analyzing, uploaded, inflight, activeTab,
                   editorValue, isModified, showVersionHistory, panelVersions,
                   lastEvent, generationToast, isAnalyzing>>

NextHome ==
    \/ createProject
    \/ \E s \in Projects : AddSketch(s)
    \/ HomeEffects

SpecHome == Init /\ [][NextHome]_vars

\* React runs the effects of a render once it has committed.
FairHome == SpecHome /\ WF_vars(HomeEffects)

\* =================================================================== claims
AllIds == 1..(MaxIds + 1)
Versions(h, p) == IF Has(h, p) THEN h[p].versions ELSE <<>>
Elems(vs) == {vs[i] : i \in 1..Len(vs)}
MaxVersionNumber(vs) ==
    CHOOSE m \in {vs[i].versionNumber : i \in 1..Len(vs)} :
        \A i \in 1..Len(vs) : vs[i].versionNumber <= m
OthersUnchanged(p) == \A q \in Projects \ {p} : histories'[q] = histories[q]

\* C1: after initializeHistory(p, text, name), whatever the store held before,
\* getVersions(p) is exactly one version, its versionNumber is 1, and
\* getCurrentVersion(p) is that version with code = text.
C1_InitializeYieldsSingleVersion ==
    [][\A p \in Projects, c \in Codes, n \in Names :
          initializeHistory(p, c, n) =>
              LET vs == getVersions(histories', p)
              IN  /\ Len(vs) = 1
                  /\ vs[1].versionNumber = 1
                  /\ vs[1].code = c
                  /\ getCurrentVersion(histories', p) = <<vs[1]>>]_vars

\* A project re-initialised after two earlier versions had been created in it.
C1_Witness ==
    \E p \in Projects :
        /\ Has(histories, p)
        /\ \A q \in Projects \ {p} : ~Has(histories, q)
        /\ Len(histories[p].versions) = 1
        /\ histories[p].versions[1].id = 3
        /\ histories[p].versions[1].description = "Initial version"
        /\ nUpdates = 0

\* C2 as stated: addVersion on a non-empty history appends exactly one
\* version, leaves the earlier ones unchanged, numbers the new one
\* (largest versionNumber before the call) + 1 and makes it current.
C2_AddVersionNumbersMaxPlusOne ==
    [][\A p \in Projects, c \in Codes, d \in Descriptions, n \in Names \cup {NoName} :
          (Versions(histories, p) # <<>> /\ addVersion(p, c, d, n)) =>
              LET old == histories[p].versions
                  new == histories'[p].versions
              IN  /\ Len(new) = Len(old) + 1
                  /\ SubSeq(new, 1, Len(old)) = old
                  /\ new[Len(new)].code = c
                  /\ new[Len(new)].versionNumber = MaxVersionNumber(old) + 1
                  /\ histories'[p].currentVersionId = new[Len(new)].id
                  /\ getCurrentVersion(histories', p) = <<new[Len(new)]>>]_vars

\* C3 as stated: the version created by addVersion has parentVersionId equal
\* to the id of the version that was current immediately before the call.
C3_ParentIsPreviousCurrent ==
    [][\A p \in Projects, c \in Codes, d \in Descriptions, n \in Names \cup {NoName} :
          (Versions(histories, p) # <<>> /\ addVersion(p, c, d, n)) =>
              LastOf(histories'[p].versions).parentVersionId
                  = histories[p].currentVersionId]_vars

\* C4: rollbackToVersion(p, v) with v the id of a version of p sets
\* currentVersionId to v, returns that version, and leaves the versions list
\* and every other project's history unchanged; no id is consumed.
C4_RollbackMovesPointerOnly ==
    [][\A p \in Projects : \A i \in 1..Len(Versions(histories, p)) :
          LET v == histories[p].versions[i].id
          IN  rollbackToVersion(p, v) =>
              LET ret == RollbackResult(histories, p, v)
              IN  /\ histories'[p].currentVersionId = v
                  /\ histories'[p].versions = histories[p].versions
                  /\ histories'[p].projectId = histories[p].projectId
                  /\ OthersUnchanged(p)
                  /\ nextId' = nextId
                  /\ Len(ret) = 1
                  /\ ret[1].id = v
                  /\ ret[1] \in Elems(histories[p].versions)
                  /\ getCurrentVersion(histories', p) = ret]_vars

\* A history of two or more versions whose current version is the first one.
C4_Witness ==
    \E p \in Projects :
        /\ Len(Versions(histories, p)) >= 2
        /\ histories[p].currentVersionId = histories[p].versions[1].id
        /\ nUpdates = 0

\* C5: deleteVersion(p, v) on a history of exactly one version changes
\* nothing, whatever v is.
C5_DeleteOnlyVersionRejected ==
    [][\A p \in Projects :
          Len(Versions(histories, p)) = 1 =>
              \A v \in AllIds :
                  deleteVersion(p, v) =>
                      /\ histories' = histories
                      /\ Len(histories'[p].versions) = 1]_vars

\* A history reduced to one version by earlier deletions: the only remaining
\* version is not the initial one.
C5_Witness ==
    \E p \in Projects :
        /\ Len(Versions(histories, p)) = 1
        /\ histories[p].versions[1].id = histories[p].currentVersionId
        /\ histories[p].versions[1].description # "Initial version"
        /\ nUpdates = 0

\* C6: deleting the current version of a history of two or more versions
\* makes the remaining version with the largest versionNumber current.
C6_DeleteCurrentMovesToLatest ==
    [][\A p \in Projects, v \in AllIds :
          (/\ Len(Versions(histories, p)) >= 2
           /\ histories[p].currentVersionId = v
           /\ deleteVersion(p, v)) =>
              LET rest == histories'[p].versions
              IN  /\ Len(rest) = Len(histories[p].versions) - 1
                  /\ \A x \in Elems(rest) : x.id # v
                  /\ \E x \in Elems(rest) :
                        /\ x.id = histories'[p].currentVersionId
                        /\ x.versionNumber = MaxVersionNumber(rest)]_vars

\* Two versions remain after the third one created in the project was deleted.
C6_Witness ==
    \E p \in Projects :
        /\ \A q \in Projects \ {p} : ~Has(histories, q)
        /\ Len(Versions(histories, p)) = 2
        /\ histories[p].versions[1].id = 1
        /\ histories[p].versions[2].id = 2
        /\ histories[p].currentVersionId = 2
        /\ nextId = 4

\* C7 as stated: every history with a non-empty versions list has a
\* currentVersionId naming one of its versions.
C7_CurrentVersionExists ==
    \A p \in Projects :
        Versions(histories, p) # <<>> => getCurrentVersion(histories, p) # <<>>

StrictlyIncreasing(vs) ==
    \A i \in 1..(Len(vs) - 1) : vs[i].versionNumber < vs[i + 1].versionNumber
Gapless(vs) ==
    \A i \in 1..(Len(vs) - 1) : vs[i + 1].versionNumber = vs[i].versionNumber + 1
StartsAtOne(vs) == vs # <<>> => vs[1].versionNumber = 1
\* The step removed a version from p's list (what only deleteVersion does
\* among initializeHistory, addVersion, rollbackToVersion, deleteVersion).
RemovedAVersion(p) ==
    /\ Has(histories, p) /\ Has(histories', p)
    /\ Len(histories'[p].versions) < Len(histories[p].versions)
    /\ Elems(histories'[p].versions) \subseteq Elems(histories[p].versions)
\* No version has been removed so far implies Q: Q holds initially and only a
\* removing step can lose it.
LostOnlyByRemoval(Q(_)) ==
    \A p \in Projects :
        (Q(Versions(histories, p)) /\ ~Q(Versions(histories', p)))
            => RemovedAVersion(p)

\* C8 as stated: versionNumbers are strictly increasing along the list and
\* start at 1 in every history; while no deleteVersion has removed a version,
\* consecutive versionNumbers differ by exactly 1.
C8_NumbersIncreaseFromOne ==
    /\ [](\A p \in Projects : /\ StrictlyIncreasing(Versions(histories, p))
                              /\ StartsAtOne(Versions(histories, p)))
    /\ [][LostOnlyByRemoval(Gapless)]_vars

\* C8 amended: versionNumbers are strictly increasing along the list in
\* every history; while no deleteVersion has removed a version they start at
\* 1 and consecutive versionNumbers differ by exactly 1.
C8_NumbersIncrease ==
    /\ [](\A p \in Projects : StrictlyIncreasing(Versions(histories, p)))
    /\ [][LostOnlyByRemoval(StartsAtOne) /\ LostOnlyByRemoval(Gapless)]_vars

\* A version appended after the first version of the history was deleted:
\* the list starts at 2 and continues with 3.
C8_Witness ==
    \E p \in Projects :
        /\ Len(Versions(histories, p)) = 2
        /\ histories[p].versions[1].versionNumber = 2
        /\ histories[p].versions[2].versionNumber = 3

SameContent(x, y) ==
    /\ x.id = y.id
    /\ x.code = y.code
    /\ x.versionNumber = y.versionNumber
    /\ x.componentName = y.componentName
    /\ x.parentVersionId = y.parentVersionId

\* C9 as stated: in every step of the store, each stored version either
\* stays in its history with the same code, id, versionNumber, componentName
\* and parentVersionId, or the step is a deleteVersion of that version.
C9_VersionsImmutable ==
    [][\A p \in Projects : \A x \in Elems(Versions(histories, p)) :
          \/ \E y \in Elems(Versions(histories', p)) : SameContent(x, y)
          \/ deleteVersion(p, x.id)]_vars

\* C10 as stated: once the effects that follow Save Changes have run, the
\* sketch's history holds at least two versions, the one created for the
\* generated code and the saved one, and the saved version is last and
\* current.
C10_SaveKeepsGeneratedVersion ==
    (lastEvent = "save" /\ dirty = {} /\ generatedCode # <<>>) =>
        LET vs == Versions(histories, currentSketch[1].id)
        IN  /\ Len(vs) >= 2
            /\ \E i \in 1..(Len(vs) - 1) : vs[i].description = "Initial version"
            /\ LastOf(vs).description = "Manual changes saved"
            /\ LastOf(vs).code = editorValue
            /\ histories[currentSketch[1].id].currentVersionId = LastOf(vs).id

\* C11 as stated: when handleRollback(v) of the panel has rolled the store
\* back to version v, the code prop the preview passes to ComponentPreview is
\* v's code.
C11_RollbackReachesPreview ==
    [][\A v \in 1..MaxIds :
          (handleRollback(v)
              /\ RollbackResult(histories, currentSketch[1].id, v) # <<>>) =>
              PreviewCode(generatedCode')
                  = <<RollbackResult(histories, currentSketch[1].id, v)[1].code>>]_vars

\* C12: addVersion for a project that has no history raises the error and
\* leaves histories and currentProjectId as they were; no id is consumed.
C12_AddVersionWithoutHistoryFails ==
    [][\A p \in Projects :
          ~Has(histories, p) =>
              \A c \in Codes, d \in Descriptions, n \in Names \cup {NoName} :
                  addVersion(p, c, d, n) =>
                      /\ AddVersionThrows(histories, p)
                      /\ histories' = histories
                      /\ currentProjectId' = currentProjectId
                      /\ nextId' = nextId]_vars

\* One project has a history of two versions, the other has none, and an id
\* is still available for the call.
C12_Witness ==
    \E p, q \in Projects :
        /\ ~Has(histories, p)
        /\ Len(Versions(histories, q)) = 2
        /\ currentProjectId = q
        /\ nextId <= MaxIds

\* C13: rollbackToVersion(p, v) returns null and changes nothing when p has
\* no history or no version of p has id v.
C13_RollbackUnknownIsNoOp ==
    [][\A p \in Projects, v \in AllIds :
          ((\A i \in 1..Len(Versions(histories, p)) :
                histories[p].versions[i].id # v)
              /\ rollbackToVersion(p, v)) =>
              /\ RollbackResult(histories, p, v) = <<>>
              /\ histories' = histories
              /\ currentProjectId' = currentProjectId
              /\ nextId' = nextId]_vars

\* One project has no history; the other has one whose first version was
\* deleted, so that id 1 was issued but names no version any more.
C13_Witness ==
    \E p, q \in Projects :
        /\ ~Has(histories, p)
        /\ Len(Versions(histories, q)) = 1
        /\ histories[q].versions[1].id = 2
        /\ histories[q].versions[1].versionNumber = 2

\* The text, once cleaned, transpiles and runs, and declares function
\* components, none of them under the expected name.
DefinesOnlyOtherNames(text, name) ==
    LET cleanCode == CleanCode(text)
    IN  /\ ~IsBlank(text)
        /\ ~TransformThrows(cleanCode)
        /\ ~FactoryThrows(cleanCode)
        /\ \E i \in 1..Len(cleanCode) : IsFunction(<<cleanCode[i]>>)
        /\ \A i \in 1..Len(cleanCode) :
               IsFunction(<<cleanCode[i]>>) => cleanCode[i].name # name

\* C14 as stated: with the transpiler loaded, a text that defines its
\* component under a name other than the expected componentName ends in the
\* resolution failure shown as Preview Error, and a displayed component is
\* always the one named componentName.
C14_NameMismatchIsError ==
    (mounted /\ babelLoaded) =>
        /\ DefinesOnlyOtherNames(previewCode, previewName) =>
               (Display = "Preview Error" /\ error = <<MsgNotFound>>)
        /\ Display = "component" => RenderedComponent[1].name = previewName

\* A recognizable component declaration: a function or const definition
\* that returns markup.
Recognizable(text) ==
    \E i \in 1..Len(text) :
        \/ text[i].kind = "function" /\ text[i].value = "markup"
        \/ text[i].kind = "const" /\ text[i].value = "arrowMarkup"
Reached(stage) == \E i \in 1..Len(stages) : stages[i] = stage

\* C15 as stated: with the transpiler loaded, an attempt on a non-blank text
\* without a recognizable component declaration (no function/const
\* definition, or none that returns markup) ends in the structural failure
\* and Babel.transform is not called in it.
C15_StructuralBeforeTranspile ==
    (mounted /\ babelLoaded /\ ~IsBlank(previewCode) /\ ~Recognizable(previewCode)) =>
        /\ error = <<MsgStructure>>
        /\ ~Reached("transform")

\* C16 as stated: once the transpiler is loaded, for every text and name the
\* preview region shows exactly one of the component, the inline Preview
\* Error or the inline Render Error.
C16_ThreeOutcomes ==
    (mounted /\ babelLoaded) =>
        Display \in {"component", "Preview Error", "Render Error"}

\* The text transpiles, resolves to a component and that component renders
\* without throwing.
RendersCleanly(text, name) ==
    LET a == Attempt(text, name, TRUE, <<>>)
    IN  a.component # <<>> /\ ~RenderThrows(a.component[1])

\* C17 as stated: when the preview shows Render Error and the same mounted
\* preview is given another text that transpiles, resolves and renders
\* without throwing, the new component is displayed.
C17_RenderErrorRecovers ==
    [][\A text \in Sources, name \in ComponentNames :
          (Display = "Render Error" /\ RendersCleanly(text, name)
               /\ SetProps(text, name)) =>
              Display' = "component"]_vars

\* A step in which the RenderedComponent memo is computed: the first render,
\* new props, or babelLoaded turning true.
MemoComputed ==
    \/ \E text \in Sources, name \in ComponentNames :
           PreviewMount(text, name) \/ SetProps(text, name)
    \/ BabelOnLoad /\ mounted

\* C18: every computation of the memo on an empty or whitespace-only text
\* leaves the error 'No code provided to preview' and no component, with the
\* transpiler loaded or not, and reaches neither the structure check nor
\* Babel.transform nor componentFactory.
C18_EmptyInputFailure ==
    [][(MemoComputed /\ IsBlank(previewCode')) =>
           /\ error' = <<MsgEmpty>>
           /\ RenderedComponent' = <<>>
           /\ stages' = <<>>]_vars

\* A whitespace-only text was rendered before the transpiler arrived.
C18_Witness ==
    /\ mounted
    /\ ~babelLoaded
    /\ previewCode = <<Blank>>
    /\ error = <<MsgEmpty>>
    /\ stages = <<>>

\* C19: comparing two versions of a project whose code is identical, the
\* same version twice included, returns empty additions, deletions and
\* modifications.
C19_IdenticalCodeNoDifference ==
    [][\A p \in CompareProjects :
          \A i, j \in 1..Len(Versions(histories, p)) :
              LET a == histories[p].versions[i]
                  b == histories[p].versions[j]
              IN  (a.code = b.code /\ DoCompareVersions(p, a.id, b.id)) =>
                      comparison'[1].result = <<NoDifference>>]_vars

\* Two different versions holding the same text of two lines were compared.
C19_Witness ==
    /\ comparison # <<>>
    /\ comparison[1].versionId1 # comparison[1].versionId2
    /\ comparison[1].result = <<NoDifference>>
    /\ LET vs == Versions(histories, comparison[1].projectId)
           version1 == FindById(vs, comparison[1].versionId1)
           version2 == FindById(vs, comparison[1].versionId2)
       IN  /\ version1 # <<>>
           /\ version2 # <<>>
           /\ version1[1].code = version2[1].code
           /\ version1[1].code = <<"x", NL, "x">>

\* A single line: a text without a line break.
OneLine(text) == \A k \in 1..Len(text) : text[k] # NL

\* C20 as stated: when b's code is a's code followed by a line break and one
\* more line, comparing a with b lists that line among the additions and
\* leaves deletions and modifications empty, for every a and every line.
C20_TrailingLineIsAddition ==
    [][\A p \in CompareProjects :
          \A i, j \in 1..Len(Versions(histories, p)) :
              LET a == histories[p].versions[i]
                  b == histories[p].versions[j]
              IN  \A extra \in {t \in Texts : OneLine(t)} :
                      (b.code = a.code \o <<NL>> \o extra
                           /\ DoCompareVersions(p, a.id, b.id)) =>
                          LET d == comparison'[1].result[1]
                          IN  /\ \E k \in 1..Len(d.additions) :
                                     d.additions[k] = AdditionOf(extra)
                              /\ d.deletions = <<>>
                              /\ d.modifications = <<>>]_vars

\* The indices in S in increasing order: the k-th is the one with k - 1
\* smaller ones.
Ascending(S) ==
    [k \in 1..Cardinality(S) |->
        CHOOSE x \in S : Cardinality({y \in S : y < x}) = k - 1]

\* Line i of a split text is absent or empty ('').
Missing(lines, i) == i > Len(lines) \/ lines[i] = <<>>

HasCurrent(p) ==
    /\ Has(histories, p)
    /\ \E i \in 1..Len(histories[p].versions) :
           histories[p].versions[i].id = histories[p].currentVersionId
\* That version: the first one carrying the id.
Current(p) ==
    LET vs == histories[p].versions
    IN  vs[CHOOSE i \in 1..Len(vs) :
               /\ vs[i].id = histories[p].currentVersionId
               /\ \A j \in 1..(i - 1) : vs[j].id # histories[p].currentVersionId]

\* C22: hasUnsavedChanges(p, liveText) is true exactly when p has no current
\* version (no history, an empty history, or a pointer that matches no
\* version) or the current version's code differs from liveText, false
\* exactly when there is a current version whose code equals liveText, and
\* the store is the same after the call.
C22_UnsavedIffNoCurrentOrDifferent ==
    [][\A p \in Projects, liveText \in Codes :
          DoHasUnsavedChanges(p, liveText) =>
              /\ unsaved'[1].result =
                     (~HasCurrent(p) \/ Current(p).code # liveText)
              /\ UNCHANGED storeVars]_vars

\* The question was asked about a history whose pointer names none of its
\* versions, with the text the only version holds.
C22_Witness ==
    /\ unsaved # <<>>
    /\ unsaved[1].result = TRUE
    /\ LET p == unsaved[1].projectId
       IN  /\ Has(histories, p)
           /\ Len(histories[p].versions) = 1
           /\ histories[p].versions[1].code = unsaved[1].currentCode
           /\ ~HasCurrent(p)

FailureToasts == {ToastGenerateFailed, ToastEnhanceFailed}

\* C24 as stated: when a generation request fails, the user is shown a
\* failure message and generatedCode is set to a non-empty placeholder
\* component declared under the requested name.
C24_FailureShownWithPlaceholder ==
    [][\A i \in 1..MaxRequests, n \in Names :
          (GenerateFallback(i, n) \/ GenerateRejects(i)) =>
              /\ generationToast' \in FailureToasts
              /\ HasJsx(generatedCode')
              /\ generatedCode'[1].jsx = Placeholder
              /\ generatedCode'[1].componentName = n]_vars

\* C25 as stated: a generation request is started either by a click on
\* Generate/Regenerate or AI Enhance, or by the auto-generate effect when the
\* last thing that happened was not the completion of a request.
C25_NoAutomaticRetry ==
    [][Len(inflight') > Len(inflight) =>
           \/ GenerateClick
           \/ AIEnhanceClick
           \/ EffectPass /\ lastEvent \notin {"resolve", "rejected"}]_vars

\* The version number and the toast the resolution of request r writes.
WrittenVersion(r) == IF r.kind = "enhance" THEN r.version ELSE 1
SuccessToast(r) == IF r.kind = "enhance" THEN ToastEnhanced ELSE ToastGenerated

Ran(stage) == \E k \in 1..Len(stages') : stages'[k] = stage

\* C26 as stated: a step that keeps the preview on the page with the same
\* code, the same component name and the same babelLoaded flag runs neither
\* Babel.transform nor the component factory and keeps RenderedComponent.
C26_RecomputedOnlyOnDependencyChange ==
    [][(/\ mounted /\ mounted'
        /\ previewCode' = previewCode
        /\ previewName' = previewName
        /\ babelLoaded' = babelLoaded) =>
           /\ ~Ran("transform")
           /\ ~Ran("factory")
           /\ RenderedComponent' = RenderedComponent]_vars

\* C27 as stated: within one history the versionNumbers handed out grow
\* strictly, so none is handed out twice and each is larger than that of
\* every version the history ever held, deleted ones included.
C27_VersionNumberNeverReused ==
    \A p \in Projects :
        \A i, j \in 1..Len(issued[p]) : i < j => issued[p][i] < issued[p][j]

\* C28 as stated: isAnalyzing is true exactly while an analysis request
\* started by an upload is in flight.
C28_AnalyzingWhileInFlight == isAnalyzing <=> analyzing # {}

\* C30 as stated, for a panel whose list equalled the store before the
\* click: after a deleteVersion performed from the open panel, the list the
\* panel displays equals getVersions(projectId) of the store, so the deleted
\* version is not among the rows that can be selected, viewed or rolled
\* back to.
C30_PanelShowsStoreAfterDelete ==
    [][\A v \in 1..MaxIds :
          (/\ PanelDelete(v)
           /\ panelVersions = getVersions(histories, currentSketch[1].id)) =>
              /\ panelVersions' = getVersions(histories', currentSketch[1].id)
              /\ FindById(getVersions(histories', currentSketch[1].id), v) = <<>>
                     => FindById(panelVersions', v) = <<>>]_vars

HasSketches == currentProject # <<>> /\ currentProject[1].sketches # <<>>

NoDuplicates ==
    \A i, j \in 1..Len(sketches) : i # j => sketches[i] # sketches[j]

\* C29 as stated: once the current project contains a sketch, the two
\* effects of the home page come to rest (no dependency left changed) in a
\* state where the sketch store's sketches list holds each id at most once.
C29_SyncEffectsSettle == HasSketches ~> (homePending = {} /\ NoDuplicates)
====
